---- MODULE Spec2Model ----
(***************************************************************************)
(* Pipeline execution core of backends/core/models.py: one Pipeline, its   *)
(* Jobs and StartConditions, the memcache counter protocol, the task queue *)
(* and the worker callbacks.  Every request handler runs to completion, so *)
(* each handler is one action; a handler is written as an operator from a  *)
(* state record to a state record, mirroring the method it models.         *)
(***************************************************************************)
EXTENDS Integers, Sequences, FiniteSets, TLC

\* ---------------------------------------------------------------- bounds
\* Job rows times pipeline runs: a pipeline of n jobs is started while
\* n * (runs + 1) <= MaxJobRuns
MaxJobRuns == 4
\* accepted calls of the recursive enqueue path in one behaviour
MaxEnqueues == 1
\* start conditions of the pipeline
MaxEdges == 2
\* rows ever created in one table of the administrative histories
MaxRows == 2
\* pipelines ever created in them
MaxPipelines == 2
\* job descriptors of an imported pipeline, and entries of the list given to
\* Job.assign_start_conditions
MaxListLen == 2
\* handlers in progress at the same time
MaxHandlers == 2

\* ------------------------------------------------------- program constants
CACHE_KEY_ENQUEUED_TASKS == "enqueued_tasks"
CACHE_KEY_STATUS == "status"
CACHE_KEY_LIST_OF_TASKS_ENQUEUED == "list_of_tasks_enqueued"
CACHE_KEY_FAILED_JOBS == "failed_jobs"
CACHE_KEY_REMAINING_JOBS == "remaining_jobs"

\* the id of the one pipeline row
PipelineId == 1
\* the job ids a pipeline may hold
JobIds == {1, 2, 3}
Conditions == {"success", "fail", "whatever"}

VARIABLES
  jobs,                    \* ids of the rows of table jobs (this pipeline)
  start_conditions,        \* rows of table start_conditions, in id order
  bad_param,               \* jobs owning a param whose val raises
  pipeline_status,         \* Pipeline.status column
  job_status,              \* Job.status column
  enqueued_workers_count,  \* Job.enqueued_workers_count column
  cache,                   \* memcache: key -> <<>> (miss) or <<value>>
  queue,                   \* tasks submitted whose callback is not handled
  mails,                   \* finished_pipeline notifications of this run
  runs,                    \* Pipeline.start calls that returned True
  enqueues,                \* Job.enqueue calls by workers that returned a task
  n_run,                   \* per job, Job.run calls of this run
  n_edge_failed,           \* per job, failures by a violated start condition
  cb_failed,               \* per job, a worker_failed callback came in this run
  marked,                  \* <<>>, or <<t>>: the task whose worker_succeeded
                           \* callback the queue service delivers twice
  twin,                    \* <<>>, or <<s>>: the handler state of the same
                           \* history without the second delivery
  db,                      \* the tables the administrative operations work
                           \* on: pipelines, jobs, params, start_conditions,
                           \* schedules, and the next id of each table
  val_of,                  \* <<>>, or <<v>>: the Param.val read last
  single,                  \* <<>>, or <<r>>: the job Pipeline.start_single_job
                           \* ran, and the handler state before and after
  handlers                 \* per concurrent handler, the frames of the calls
                           \* it is in, innermost first; <<>> when it is free

vars == <<jobs, start_conditions, bad_param, pipeline_status, job_status,
          enqueued_workers_count, cache, queue, mails, runs, enqueues,
          n_run, n_edge_failed, cb_failed, marked, twin, db, val_of,
          single, handlers>>

\* ------------------------------------------------------------------ keys
_get_pipeline_prefix == ToString(PipelineId) \o "_"
_get_job_prefix(j) == ToString(j) \o "_"
StatusKey(j) == _get_pipeline_prefix \o _get_job_prefix(j) \o CACHE_KEY_STATUS
EnqueuedKey(j) ==
  _get_pipeline_prefix \o _get_job_prefix(j) \o CACHE_KEY_ENQUEUED_TASKS
PrefixedKey(k) == _get_pipeline_prefix \o k

Keys ==
  {CACHE_KEY_FAILED_JOBS, CACHE_KEY_REMAINING_JOBS,
   CACHE_KEY_LIST_OF_TASKS_ENQUEUED}
  \cup {PrefixedKey(CACHE_KEY_FAILED_JOBS), PrefixedKey(CACHE_KEY_REMAINING_JOBS),
        PrefixedKey(CACHE_KEY_LIST_OF_TASKS_ENQUEUED)}
  \cup {StatusKey(j) : j \in JobIds} \cup {EnqueuedKey(j) : j \in JobIds}

\* ------------------------------------------------------------ core.cache
\* memcache_client.get(key, default_value)
CacheGet(c, key, default_value) ==
  IF c[key] = <<>> THEN default_value ELSE c[key][1]

\* memcache_client.set_cache(key, value)
set_cache(c, key, value) == [c EXCEPT ![key] = <<value>>]

\* Python truth value of a cached counter: None and 0 are false
TruthyNum(c, key) == c[key] # <<>> /\ c[key][1] # 0

\* Python truth value of a cached list: None and [] are false
TruthyList(c, key) == c[key] # <<>> /\ c[key][1] # <<>>

\* ------------------------------------------------------------- sequences
RECURSIVE SortedSeq(_)
SortedSeq(S) ==
  IF S = {} THEN <<>>
  ELSE LET m == CHOOSE x \in S : \A y \in S : x <= y
       IN <<m>> \o SortedSeq(S \ {m})

SeqFilter(q, x) == SelectSeq(q, LAMBDA e : e # x)

Range(q) == {q[i] : i \in DOMAIN q}

\* ------------------------------------------------------------ the handler state
\* What a handler reads and writes.  mem_status is the status attribute of the
\* Pipeline object the handler holds in memory; finishes counts the calls of
\* Pipeline._finish made by the handler; ret is the handler's return value.
\* n_run and n_edge_failed count, per job and per pipeline run, the calls of
\* Job.run and the failures of a job by a violated start condition; cb_failed
\* tells the jobs a worker_failed callback was handled for in the run.
State ==
  [pipeline_status |-> pipeline_status,
   job_status |-> job_status,
   enqueued_workers_count |-> enqueued_workers_count,
   cache |-> cache,
   queue |-> queue,
   mails |-> mails,
   n_run |-> n_run,
   n_edge_failed |-> n_edge_failed,
   cb_failed |-> cb_failed,
   mem_status |-> pipeline_status,
   finishes |-> 0,
   ret |-> FALSE]

Return(s, v) == [s EXCEPT !.ret = v]

\* ------------------------------------------------------------------- Job
\* Job.get_status
get_status(s, j) == CacheGet(s.cache, StatusKey(j), s.job_status[j])

\* Job.prepare_for_start
prepare_for_start(s, j) ==
  IF get_status(s, j) \notin {"idle", "succeeded", "failed"}
  THEN Return(s, FALSE)
  ELSE Return([s EXCEPT !.cache = set_cache(s.cache, StatusKey(j), "waiting")],
              TRUE)

\* Job.get_ready: a param whose val raises InvalidExpression or TypeError is
\* logged and the job is not prepared
JobGetReady(s, j) ==
  IF j \in bad_param THEN Return(s, FALSE) ELSE prepare_for_start(s, j)

\* Job._increase_value_cache(key, db_value); db_value is <<>> for None
_increase_value_cache(s, key, db_value) ==
  LET k == PrefixedKey(key)
      seed == IF db_value # <<>> /\ db_value[1] # 0
              THEN db_value[1] + 1 ELSE 1
      new == IF TruthyNum(s.cache, k) THEN s.cache[k][1] + 1 ELSE seed
  IN [s EXCEPT !.cache = set_cache(s.cache, k, new)]

\* a _decrease_value_cache that decrements whatever value is cached
_decrease_value_cache_AnyCached(s, key, db_value) ==
  LET k == PrefixedKey(key)
      seed == IF db_value # <<>> /\ db_value[1] # 0
              THEN db_value[1] - 1 ELSE 0
      new == IF s.cache[k] # <<>> THEN s.cache[k][1] - 1 ELSE seed
  IN [s EXCEPT !.cache = set_cache(s.cache, k, new)]

\* Job._decrease_value_cache(key, db_value); db_value is <<>> for None
_decrease_value_cache(s, key, db_value) ==
  LET k == PrefixedKey(key)
      seed == IF db_value # <<>> /\ db_value[1] # 0
              THEN db_value[1] - 1 ELSE 0
      new == IF TruthyNum(s.cache, k) THEN s.cache[k][1] - 1 ELSE seed
  IN [s EXCEPT !.cache = set_cache(s.cache, k, new)]

\* Job._add_task_name_cache
_add_task_name_cache(s, task_name) ==
  LET k == PrefixedKey(CACHE_KEY_LIST_OF_TASKS_ENQUEUED)
      new == IF TruthyList(s.cache, k)
             THEN Append(s.cache[k][1], task_name) ELSE <<task_name>>
  IN [s EXCEPT !.cache = set_cache(s.cache, k, new)]

\* Job._delete_task_name_cache
_delete_task_name_cache(s, task_name) ==
  LET k == PrefixedKey(CACHE_KEY_LIST_OF_TASKS_ENQUEUED)
      new == IF TruthyList(s.cache, k)
             THEN SeqFilter(s.cache[k][1], task_name) ELSE <<>>
  IN [s EXCEPT !.cache = set_cache(s.cache, k, new)]

\* Job._start_condition_is_fulfuilled
_start_condition_is_fulfuilled(s, start_condition) ==
  LET preceding_job_status == get_status(s, start_condition.preceding_job_id)
  IN IF start_condition.condition = "success"
     THEN preceding_job_status # "failed"
     ELSE IF start_condition.condition = "fail"
          THEN preceding_job_status # "succeeded"
          ELSE TRUE

\* Job.start_conditions and Job.dependent_jobs (relationships, in id order)
JobStartConditions(j) == SelectSeq(start_conditions, LAMBDA sc : sc.job_id = j)

dependent_jobs(j) ==
  SortedSeq({sc.job_id : sc \in {c \in Range(start_conditions) :
                                   c.preceding_job_id = j}})

\* a _finish that reads the outcome from every job of the pipeline
_finish_AllJobs(s) ==
  LET status == IF \E j \in jobs : get_status(s, j) = "failed"
                THEN "failed" ELSE "succeeded"
  IN [s EXCEPT !.pipeline_status = status,
               !.mem_status = status,
               !.mails = @ + 1,
               !.finishes = @ + 1]

\* Pipeline._finish: the outcome is read from the jobs that precede no job
_finish(s) ==
  LET sinks == {j \in jobs : ~ \E sc \in Range(start_conditions) :
                                  sc.preceding_job_id = j}
      status == IF \E j \in sinks : get_status(s, j) = "failed"
                THEN "failed" ELSE "succeeded"
  IN [s EXCEPT !.pipeline_status = status,
               !.mem_status = status,
               !.mails = @ + 1,
               !.finishes = @ + 1]

\* Pipeline.job_finished
job_finished(s) ==
  IF \E j \in jobs : get_status(s, j) \notin {"succeeded", "failed", "idle"}
  THEN s
  ELSE _finish(s)

\* Job.set_failed_status
set_failed_status(s, j) ==
  LET s1 == _increase_value_cache(s, CACHE_KEY_FAILED_JOBS, <<>>)
      s2 == _decrease_value_cache(s1, CACHE_KEY_REMAINING_JOBS,
                                  <<Cardinality(jobs)>>)
  IN [s2 EXCEPT !.cache = set_cache(s2.cache, StatusKey(j), "failed"),
                !.job_status[j] = "failed",
                !.mem_status = "failed"]

\* Job.set_succeeded_status
set_succeeded_status(s, j) ==
  LET s1 == _decrease_value_cache(s, CACHE_KEY_REMAINING_JOBS,
                                  <<Cardinality(jobs)>>)
  IN [s1 EXCEPT !.cache = set_cache(s1.cache, StatusKey(j), "succeeded"),
                !.job_status[j] = "succeeded"]

\* uuid.uuid4(): a value that no task name known to the queue or the cache
\* carries, nor the name of a callback still to be delivered again; the
\* least such number stands for it
uuid4(s, j) ==
  LET used == {t[2] : t \in {u \in s.queue \cup Range(marked) \cup
                     Range(CacheGet(s.cache,
                                    PrefixedKey(CACHE_KEY_LIST_OF_TASKS_ENQUEUED),
                                    <<>>)) : u[1] = j}}
  IN CHOOSE n \in 1..(Cardinality(used) + 1) : n \notin used

\* a Job.enqueue that does not test the status
enqueue_Unchecked(s, j) ==
  LET unique_task_name == <<j, uuid4(s, j)>>
      s1 == _add_task_name_cache(s, unique_task_name)
      s2 == [s1 EXCEPT !.queue = @ \cup {unique_task_name},
                       !.enqueued_workers_count[j] = @ + 1]
      s3 == _increase_value_cache(
              s2, _get_job_prefix(j) \o CACHE_KEY_ENQUEUED_TASKS, <<>>)
  IN Return(s3, TRUE)

\* Job.enqueue: the unique task name is the job's name part and a fresh uuid
enqueue(s, j) ==
  IF get_status(s, j) # "running"
  THEN Return(s, FALSE)
  ELSE LET unique_task_name == <<j, uuid4(s, j)>>
           s1 == _add_task_name_cache(s, unique_task_name)
           s2 == [s1 EXCEPT !.queue = @ \cup {unique_task_name},
                            !.enqueued_workers_count[j] = @ + 1]
           s3 == _increase_value_cache(
                   s2, _get_job_prefix(j) \o CACHE_KEY_ENQUEUED_TASKS, <<>>)
       IN Return(s3, TRUE)

\* Job.run: a param whose val raises ends the call after the status write,
\* before the job is saved or a task enqueued
run(s, j) ==
  LET s1 == [s EXCEPT !.enqueued_workers_count[j] = 0,
                      !.cache = set_cache(s.cache, StatusKey(j), "running"),
                      !.n_run[j] = @ + 1]
  IN IF j \in bad_param
     THEN Return([s1 EXCEPT !.enqueued_workers_count[j] =
                              s.enqueued_workers_count[j],
                            !.n_run[j] = s.n_run[j]], FALSE)
     ELSE enqueue(s1, j)

\* a Job.start that does not wait for a fulfilled edge's predecessor
RECURSIVE ScanStartConditions_NoWait(_, _)
ScanStartConditions_NoWait(s, scs) ==
  IF scs = <<>> THEN "run"
  ELSE IF _start_condition_is_fulfuilled(s, Head(scs))
       THEN ScanStartConditions_NoWait(s, Tail(scs))
       ELSE "fail"

\* the loop of Job.start over self.start_conditions: "run" when it falls
\* through, "wait" on a predecessor that is not terminal, "fail" on a
\* violated condition
RECURSIVE ScanStartConditions(_, _)
ScanStartConditions(s, scs) ==
  IF scs = <<>> THEN "run"
  ELSE IF _start_condition_is_fulfuilled(s, Head(scs))
       THEN IF get_status(s, Head(scs).preceding_job_id)
                 \notin {"succeeded", "failed"}
            THEN "wait"
            ELSE ScanStartConditions(s, Tail(scs))
       ELSE "fail"

\* a Job.start that fails the job on a violated condition and stops there
start_NoCascade(s, j) ==
  IF get_status(s, j) # "waiting"
  THEN s
  ELSE LET verdict == ScanStartConditions(s, JobStartConditions(j))
       IN IF verdict = "wait" THEN s
          ELSE IF verdict = "fail"
               THEN [set_failed_status(s, j) EXCEPT !.n_edge_failed[j] = @ + 1]
               ELSE run(s, j)

RECURSIVE start(_, _), _start_dependent_jobs(_, _), StartEach(_, _)

\* Job.start
start(s, j) ==
  IF get_status(s, j) # "waiting"
  THEN s
  ELSE LET verdict == ScanStartConditions(s, JobStartConditions(j))
       IN IF verdict = "wait" THEN s
          ELSE IF verdict = "fail"
               THEN _start_dependent_jobs(
                      [set_failed_status(s, j) EXCEPT !.n_edge_failed[j] = @ + 1],
                      j)
               ELSE run(s, j)

\* for job in ...: job.start()
StartEach(s, js) ==
  IF js = <<>> THEN s ELSE StartEach(start(s, Head(js)), Tail(js))

\* a _start_dependent_jobs that does not report to the pipeline
_start_dependent_jobs_NoFinish(s, j) == StartEach(s, dependent_jobs(j))

\* Job._start_dependent_jobs
_start_dependent_jobs(s, j) == job_finished(StartEach(s, dependent_jobs(j)))

\* Job.stop: reads the status column, not the cache
JobStop(s, j) ==
  IF s.job_status[j] = "waiting"
  THEN [s EXCEPT !.job_status[j] = "failed"]
  ELSE IF s.job_status[j] = "running"
       THEN [s EXCEPT !.job_status[j] = "stopping"]
       ELSE s

\* a worker_succeeded that ends the job without reading the counter
worker_succeeded_NoZeroCheck(s, j, task_name) ==
  LET s1 == _delete_task_name_cache(s, task_name)
      s2 == _decrease_value_cache(
              s1, _get_job_prefix(j) \o CACHE_KEY_ENQUEUED_TASKS,
              <<s.enqueued_workers_count[j]>>)
  IN _start_dependent_jobs(
       IF get_status(s2, j) # "failed"
       THEN set_succeeded_status(s2, j)
       ELSE set_failed_status(s2, j),
       j)

\* Job.worker_succeeded
worker_succeeded(s, j, task_name) ==
  LET s1 == _delete_task_name_cache(s, task_name)
      s2 == _decrease_value_cache(
              s1, _get_job_prefix(j) \o CACHE_KEY_ENQUEUED_TASKS,
              <<s.enqueued_workers_count[j]>>)
  IN IF s2.cache[EnqueuedKey(j)] = <<0>>
     THEN _start_dependent_jobs(
            IF get_status(s2, j) # "failed"
            THEN set_succeeded_status(s2, j)
            ELSE set_failed_status(s2, j),
            j)
     ELSE s2

\* a worker_failed that marks the job failed only with its last task
worker_failed_NotSticky(s, j, task_name) ==
  LET s1 == _delete_task_name_cache(s, task_name)
      s2 == _decrease_value_cache(
              s1, _get_job_prefix(j) \o CACHE_KEY_ENQUEUED_TASKS, <<>>)
  IN IF s2.cache[EnqueuedKey(j)] = <<0>>
     THEN _start_dependent_jobs(set_failed_status(s2, j), j)
     ELSE s2

\* Job.worker_failed
worker_failed(s, j, task_name) ==
  LET s1 == _delete_task_name_cache(s, task_name)
      s2 == _decrease_value_cache(
              s1, _get_job_prefix(j) \o CACHE_KEY_ENQUEUED_TASKS, <<>>)
      s3 == set_failed_status(s2, j)
  IN IF s3.cache[EnqueuedKey(j)] = <<0>>
     THEN _start_dependent_jobs(s3, j)
     ELSE s3

\* -------------------------------------------------------------- Pipeline
\* Pipeline.get_ready: the keys are written without the pipeline prefix
PipelineGetReady(s) ==
  [s EXCEPT !.cache =
     set_cache(set_cache(set_cache(s.cache,
       CACHE_KEY_FAILED_JOBS, 0),
       CACHE_KEY_REMAINING_JOBS, Cardinality(jobs)),
       CACHE_KEY_LIST_OF_TASKS_ENQUEUED, <<>>)]

\* for job in jobs: if not job.get_ready(): return False
RECURSIVE GetReadyEach(_, _)
GetReadyEach(s, js) ==
  IF js = <<>> THEN Return(s, TRUE)
  ELSE LET s1 == JobGetReady(s, Head(js))
       IN IF s1.ret THEN GetReadyEach(s1, Tail(js)) ELSE s1

\* a Pipeline.start that leaves every check to the jobs' prepare_for_start
PipelineStart_Unchecked(s) ==
  LET s1 == PipelineGetReady(s)
      s2 == GetReadyEach(s1, SortedSeq(jobs))
  IN IF ~ s2.ret THEN s2
     ELSE LET s3 == StartEach(s2, SortedSeq(jobs))
          IN Return([s3 EXCEPT !.pipeline_status = "running",
                               !.mem_status = "running"],
                    TRUE)

\* Pipeline.start
PipelineStart(s) ==
  IF s.pipeline_status \notin {"idle", "finished", "failed", "succeeded"}
  THEN Return(s, FALSE)
  ELSE LET s1 == PipelineGetReady(s)
       IN IF Cardinality(jobs) < 1 THEN Return(s1, FALSE)
          ELSE IF \E j \in jobs :
                    get_status(s1, j) \notin {"idle", "succeeded", "failed"}
               THEN Return(s1, FALSE)
               ELSE LET s2 == GetReadyEach(s1, SortedSeq(jobs))
                    IN IF ~ s2.ret THEN s2
                       ELSE LET s3 == StartEach(s2, SortedSeq(jobs))
                            IN Return([s3 EXCEPT !.pipeline_status = "running",
                                                 !.mem_status = "running"],
                                      TRUE)

\* for job in self.jobs: job.stop()
RECURSIVE StopEach(_, _)
StopEach(s, js) ==
  IF js = <<>> THEN s ELSE StopEach(JobStop(s, Head(js)), Tail(js))

\* Pipeline.stop
PipelineStop(s) ==
  IF s.pipeline_status # "running"
  THEN Return(s, FALSE)
  ELSE LET s1 == StopEach(s, SortedSeq(jobs))
       IN IF \E j \in jobs : get_status(s1, j) \notin {"succeeded", "failed"}
          THEN Return([s1 EXCEPT !.pipeline_status = "stopping",
                                 !.mem_status = "stopping"], TRUE)
          ELSE Return(_finish(s1), TRUE)

\* Pipeline.start_single_job(job); the exception of a Job.run that raises
\* ends the call
start_single_job(s, j) ==
  IF s.pipeline_status \notin {"idle", "finished", "failed", "succeeded"}
  THEN Return(s, FALSE)
  ELSE LET s1 == run(s, j)
       IN IF j \in bad_param THEN s1
          ELSE Return([s1 EXCEPT !.pipeline_status = "running",
                                 !.mem_status = "running"], TRUE)

\* ---------------------------------------------------------------- tables
\* the tables before any row is saved; ids are autoincremented from 1
NoRows ==
  [pipelines |-> {}, jobs |-> {}, params |-> {}, start_conditions |-> {},
   schedules |-> {},
   next |-> [pipelines |-> 1, jobs |-> 1, params |-> 1,
             start_conditions |-> 1, schedules |-> 1]]

\* BaseModel.create / save of a new row: the row gets the next id of its
\* table
Insert(d, table, row) ==
  [d EXCEPT ![table] = @ \cup {[row EXCEPT !.id = d.next[table]]},
            !.next[table] = @ + 1]

\* BaseModel.destroy(*ids) and where(...).delete(): the rows are removed
DeleteRows(d, table, rows) == [d EXCEPT ![table] = @ \ rows]

\* the loop of Param.update_list over entries that carry no id: each one is
\* created for its owner
RECURSIVE CreateParams(_, _, _, _)
CreateParams(d, parameters, pipeline_id, job_id) ==
  IF parameters = <<>> THEN d
  ELSE CreateParams(
         Insert(d, "params",
                [id |-> 0, name |-> Head(parameters).name,
                 type |-> Head(parameters).type,
                 value |-> Head(parameters).value,
                 pipeline_id |-> pipeline_id, job_id |-> job_id]),
         Tail(parameters), pipeline_id, job_id)

\* Param.update_list(parameters, obj) for a pipeline (job_id 0) or a job
\* (pipeline_id 0): the entries are created, the owner's other params removed
update_list(d, parameters, pipeline_id, job_id) ==
  LET d1 == CreateParams(d, parameters, pipeline_id, job_id)
      arg_param_ids == d.next.params..(d1.next.params - 1)
      owned == {q \in d1.params :
                  IF job_id # 0 THEN q.job_id = job_id
                  ELSE q.pipeline_id = pipeline_id}
  IN DeleteRows(d1, "params", {q \in owned : q.id \notin arg_param_ids})

\* the loop of Pipeline.assign_schedules over entries that carry no id
RECURSIVE CreateSchedules(_, _, _)
CreateSchedules(d, arg_schedules, pipeline_id) ==
  IF arg_schedules = <<>> THEN d
  ELSE CreateSchedules(
         Insert(d, "schedules", [id |-> 0, pipeline_id |-> pipeline_id,
                                 cron |-> Head(arg_schedules).cron]),
         Tail(arg_schedules), pipeline_id)

\* Pipeline.assign_schedules
assign_schedules(d, arg_schedules, pipeline_id) ==
  LET d1 == CreateSchedules(d, arg_schedules, pipeline_id)
      arg_schedule_ids == d.next.schedules..(d1.next.schedules - 1)
  IN DeleteRows(d1, "schedules",
                {q \in d1.schedules : /\ q.pipeline_id = pipeline_id
                                      /\ q.id \notin arg_schedule_ids})

\* a Job.assign_hash_start_conditions that keeps the source ids
RECURSIVE assign_hash_start_conditions_Unmapped(_, _, _, _)
assign_hash_start_conditions_Unmapped(d, job_id, arg_start_conditions, job_mapping) ==
  IF arg_start_conditions = <<>> THEN d
  ELSE assign_hash_start_conditions_Unmapped(
         Insert(d, "start_conditions",
                [id |-> 0, job_id |-> job_id,
                 preceding_job_id |-> Head(arg_start_conditions).preceding_job_id,
                 condition |-> Head(arg_start_conditions).condition]),
         job_id, Tail(arg_start_conditions), job_mapping)

\* Job.assign_hash_start_conditions
RECURSIVE assign_hash_start_conditions(_, _, _, _)
assign_hash_start_conditions(d, job_id, arg_start_conditions, job_mapping) ==
  IF arg_start_conditions = <<>> THEN d
  ELSE assign_hash_start_conditions(
         Insert(d, "start_conditions",
                [id |-> 0, job_id |-> job_id,
                 preceding_job_id |->
                   job_mapping[Head(arg_start_conditions).preceding_job_id],
                 condition |-> Head(arg_start_conditions).condition]),
         job_id, Tail(arg_start_conditions), job_mapping)

\* the first loop of Pipeline.import_data: a job per descriptor, with its
\* params; the result holds the tables, the mapping and the new job ids
RECURSIVE ImportJobs(_, _, _)
ImportJobs(acc, pipeline_id, jobs_data) ==
  IF jobs_data = <<>> THEN acc
  ELSE LET job_data == Head(jobs_data)
           job_id == acc.d.next.jobs
           d1 == Insert(acc.d, "jobs", [id |-> 0, pipeline_id |-> pipeline_id])
           d2 == update_list(d1, job_data.params, 0, job_id)
       IN ImportJobs(
            [d |-> d2,
             job_mapping |->
               [k \in DOMAIN acc.job_mapping \cup {job_data.id} |->
                  IF k = job_data.id THEN job_id ELSE acc.job_mapping[k]],
             jobs |-> Append(acc.jobs, job_id)],
            pipeline_id, Tail(jobs_data))

\* the second loop of Pipeline.import_data: the descriptor of each new job
\* is looked up through the mapping and its start conditions are created
RECURSIVE ImportStartConditions(_, _, _, _)
ImportStartConditions(d, new_jobs, data, job_mapping) ==
  IF new_jobs = <<>> THEN d
  ELSE LET job_id == CHOOSE k \in DOMAIN job_mapping :
                       job_mapping[k] = Head(new_jobs)
           job_data == data.jobs[CHOOSE i \in DOMAIN data.jobs :
                         /\ data.jobs[i].id = job_id
                         /\ \A k \in 1..(i - 1) : data.jobs[k].id # job_id]
       IN ImportStartConditions(
            assign_hash_start_conditions(d, Head(new_jobs),
                                         job_data.hash_start_conditions,
                                         job_mapping),
            Tail(new_jobs), data, job_mapping)

\* Pipeline.import_data
import_data(d, pipeline_id, data) ==
  LET d1 == update_list(d, data.params, pipeline_id, 0)
      d2 == assign_schedules(d1, data.schedules, pipeline_id)
      made == ImportJobs([d |-> d2, job_mapping |-> [k \in {} |-> 0],
                          jobs |-> <<>>],
                         pipeline_id, data.jobs)
  IN IF data.jobs = <<>> THEN d2
     ELSE ImportStartConditions(made.d, made.jobs, data, made.job_mapping)

\* a Job.destroy that leaves the start conditions of the dependent jobs
JobDestroy_OwnConditionsOnly(d, job_id) ==
  LET d1 == DeleteRows(d, "start_conditions",
                       {sc \in d.start_conditions : sc.job_id = job_id})
      d3 == DeleteRows(d1, "params", {q \in d1.params : q.job_id = job_id})
  IN DeleteRows(d3, "jobs", {j \in d3.jobs : j.id = job_id})

\* Job.destroy
JobDestroy(d, job_id) ==
  LET d1 == DeleteRows(d, "start_conditions",
                       {sc \in d.start_conditions : sc.job_id = job_id})
      d2 == DeleteRows(d1, "start_conditions",
                       {sc \in d1.start_conditions :
                          sc.preceding_job_id = job_id})
      d3 == DeleteRows(d2, "params", {q \in d2.params : q.job_id = job_id})
  IN DeleteRows(d3, "jobs", {j \in d3.jobs : j.id = job_id})

\* for job in self.jobs: job.destroy()
RECURSIVE DestroyEach(_, _)
DestroyEach(d, job_ids) ==
  IF job_ids = <<>> THEN d
  ELSE DestroyEach(JobDestroy(d, Head(job_ids)), Tail(job_ids))

\* Pipeline.destroy
PipelineDestroy(d, pipeline_id) ==
  LET d1 == DeleteRows(d, "schedules",
                       {q \in d.schedules : q.pipeline_id = pipeline_id})
      d2 == DestroyEach(d1, SortedSeq({j.id : j \in {k \in d1.jobs :
                                         k.pipeline_id = pipeline_id}}))
      d3 == DeleteRows(d2, "params",
                       {q \in d2.params : q.pipeline_id = pipeline_id})
  IN [d3 EXCEPT !.pipelines = @ \ {pipeline_id}]

\* StartCondition.parse_value
parse_value(value) ==
  [id |-> value.preceding_job_id, condition |-> value.condition]

\* the loop of Job.assign_start_conditions over the parsed entries: a new
\* preceding job gets a row, a current one has the first of its rows updated
RECURSIVE AssignEach(_, _, _, _, _)
AssignEach(d, job_id, scs, new_sc_ids, sc_intersection_ids) ==
  IF scs = <<>> THEN d
  ELSE LET v == Head(scs)
           found == {sc \in d.start_conditions :
                       sc.job_id = job_id /\ sc.preceding_job_id = v.id}
           first == CHOOSE sc \in found : \A o \in found : sc.id <= o.id
           d1 == IF v.id \in new_sc_ids
                 THEN Insert(d, "start_conditions",
                             [id |-> 0, job_id |-> job_id,
                              preceding_job_id |-> v.id,
                              condition |-> v.condition])
                 ELSE IF v.id \in sc_intersection_ids
                      THEN [d EXCEPT !.start_conditions =
                              (@ \ {first})
                              \cup {[first EXCEPT !.condition = v.condition]}]
                      ELSE d
       IN AssignEach(d1, job_id, Tail(scs), new_sc_ids, sc_intersection_ids)

\* Job.assign_start_conditions
assign_start_conditions(d, job_id, arg_start_conditions) ==
  LET scs == [i \in DOMAIN arg_start_conditions |->
                parse_value(arg_start_conditions[i])]
      arg_sc_ids == {scs[i].id : i \in DOMAIN scs}
      cur_sc_ids == {sc.preceding_job_id :
                       sc \in {c \in d.start_conditions : c.job_id = job_id}}
      d1 == AssignEach(d, job_id, scs, arg_sc_ids \ cur_sc_ids,
                       arg_sc_ids \cap cur_sc_ids)
      delete_sc_ids == cur_sc_ids \ arg_sc_ids
  IN DeleteRows(d1, "start_conditions",
                {sc \in d1.start_conditions :
                   /\ sc.job_id = job_id
                   /\ sc.preceding_job_id \in delete_sc_ids})

\* ----------------------------------------------------------------- Param
\* A text is a sequence of characters.  A value is tagged with its Python
\* type; "raise" stands for an exception that leaves the evaluation.
IntVal(n) == [t |-> "int", v |-> n]
StrVal(x) == [t |-> "str", v |-> x]
BoolVal(b) == [t |-> "bool", v |-> b]
ListVal(l) == [t |-> "list", v |-> l]
Raised == [t |-> "raise", v |-> 0]

Digits == <<"0", "1", "2", "3", "4", "5", "6", "7", "8", "9">>

IsDigit(c) == \E i \in DOMAIN Digits : Digits[i] = c

DigitVal(c) == (CHOOSE i \in DOMAIN Digits : Digits[i] = c) - 1

\* the number a text of digits denotes
RECURSIVE DigitsToInt(_)
DigitsToInt(x) ==
  IF x = <<>> THEN 0
  ELSE 10 * DigitsToInt(SubSeq(x, 1, Len(x) - 1)) + DigitVal(x[Len(x)])

\* the decimal digits of a natural number
RECURSIVE IntToDigits(_)
IntToDigits(n) ==
  IF n < 10 THEN <<Digits[n + 1]>>
  ELSE IntToDigits(n \div 10) \o <<Digits[(n % 10) + 1]>>

\* str.strip()
RECURSIVE Strip(_)
Strip(x) ==
  IF x # <<>> /\ Head(x) = " " THEN Strip(Tail(x))
  ELSE IF x # <<>> /\ x[Len(x)] = " " THEN Strip(SubSeq(x, 1, Len(x) - 1))
       ELSE x

\* int(s): <<n>>, or <<>> for ValueError; blanks around the number and one
\* sign before it are accepted
PyInt(x) ==
  LET u == Strip(x)
      signed == u # <<>> /\ Head(u) \in {"+", "-"}
      body == IF signed THEN Tail(u) ELSE u
  IN IF body # <<>> /\ \A i \in DOMAIN body : IsDigit(body[i])
     THEN <<IF signed /\ Head(u) = "-"
            THEN 0 - DigitsToInt(body) ELSE DigitsToInt(body)>>
     ELSE <<>>

\* float(s): <<n>>, or <<>> for ValueError.  The texts here hold no '.', no
\* exponent and no 'inf' or 'nan', so float accepts what int accepts.
PyFloat(x) == PyInt(x)

\* _parse_num
_parse_num(x) ==
  IF PyInt(x) # <<>> THEN PyInt(x)[1]
  ELSE IF PyFloat(x) # <<>> THEN PyFloat(x)[1]
       ELSE 0

\* str(result)
Str(val) ==
  IF val.t = "int"
  THEN IF val.v < 0 THEN <<"-">> \o IntToDigits(0 - val.v)
       ELSE IntToDigits(val.v)
  ELSE IF val.t = "bool"
       THEN IF val.v THEN <<"T", "r", "u", "e">>
            ELSE <<"F", "a", "l", "s", "e">>
       ELSE val.v

\* the last position of the shortest match of {%.+?%} that begins at
\* position i of text x, or 0 when none begins there
MatchEnd(x, i) ==
  IF i + 1 <= Len(x) /\ x[i] = "{" /\ x[i + 1] = "%"
  THEN LET ends == {k \in (i + 3)..(Len(x) - 1) :
                      x[k] = "%" /\ x[k + 1] = "}"}
       IN IF ends = {} THEN 0
          ELSE (CHOOSE k \in ends : \A m \in ends : k <= m) + 1
  ELSE 0

\* _INLINER_REGEX.findall(value), scanning from position i
RECURSIVE FindAll(_, _)
FindAll(x, i) ==
  IF i > Len(x) THEN <<>>
  ELSE IF MatchEnd(x, i) = 0 THEN FindAll(x, i + 1)
       ELSE <<SubSeq(x, i, MatchEnd(x, i))>> \o FindAll(x, MatchEnd(x, i) + 1)

\* str.replace(old, new)
RECURSIVE Replace(_, _, _)
Replace(x, old, new) ==
  IF Len(x) < Len(old) THEN x
  ELSE IF SubSeq(x, 1, Len(old)) = old
       THEN new \o Replace(SubSeq(x, Len(old) + 1, Len(x)), old, new)
       ELSE <<Head(x)>> \o Replace(Tail(x), old, new)

\* the operands of a sum: the pieces of the text between the '+' signs
RECURSIVE SplitPlus(_, _)
SplitPlus(x, piece) ==
  IF x = <<>> THEN <<piece>>
  ELSE IF Head(x) = "+" THEN <<piece>> \o SplitPlus(Tail(x), <<>>)
       ELSE SplitPlus(Tail(x), Append(piece, Head(x)))

\* one operand: a number literal or a name of the bindings
Operand(x, names) ==
  LET u == Strip(x)
  IN IF u # <<>> /\ \A i \in DOMAIN u : IsDigit(u[i])
     THEN IntVal(DigitsToInt(u))
     ELSE IF Len(u) = 1 /\ u[1] \in DOMAIN names THEN names[u[1]]
          ELSE Raised

\* the + of the evaluator: numbers add, texts concatenate, else TypeError
Plus(a, b) ==
  IF a.t = "int" /\ b.t = "int" THEN IntVal(a.v + b.v)
  ELSE IF a.t = "str" /\ b.t = "str" THEN StrVal(a.v \o b.v)
       ELSE Raised

RECURSIVE SumOf(_, _)
SumOf(operands, names) ==
  IF Len(operands) = 1 THEN Operand(operands[1], names)
  ELSE Plus(SumOf(SubSeq(operands, 1, Len(operands) - 1), names),
            Operand(operands[Len(operands)], names))

\* simple_eval(expr, names=names): sums of number literals and names
simple_eval(expr, names) == SumOf(SplitPlus(expr, <<>>), names)

\* the loop of Param._expand_vars over the inliners: <<text>>, or <<>> when
\* an inliner raises
RECURSIVE ExpandEach(_, _, _)
ExpandEach(value, inliners, names) ==
  IF inliners = <<>> THEN <<value>>
  ELSE LET inliner == Head(inliners)
           result == simple_eval(SubSeq(inliner, 3, Len(inliner) - 2), names)
       IN IF result.t = "raise" THEN <<>>
          ELSE ExpandEach(Replace(value, inliner, Str(result)),
                          Tail(inliners), names)

\* Param.val of a row whose _expand_vars works with the bindings names;
\* names is <<>> when a binding raised
ValWith(param, names) ==
  IF param.type = "boolean" THEN BoolVal(param.value = <<"1">>)
  ELSE IF names = <<>> THEN Raised
  ELSE LET val == ExpandEach(param.value, FindAll(param.value, 1), names[1])
       IN IF val = <<>> THEN Raised
          ELSE IF param.type = "number" THEN IntVal(_parse_num(val[1]))
          ELSE IF param.type = "string_list" THEN ListVal(<<val[1]>>)
          ELSE IF param.type = "number_list"
               THEN ListVal(IF Strip(val[1]) # <<>>
                            THEN <<_parse_num(val[1])>> ELSE <<>>)
               ELSE StrVal(val[1])

\* the bindings of a set of rows, added to the bindings base; <<>> when a
\* val raises.  Names are unique within a scope.
Bind(rows, base, names) ==
  IF base = <<>> \/ \E p \in rows : ValWith(p, names).t = "raise" THEN <<>>
  ELSE <<[n \in DOMAIN base[1] \cup {p.name : p \in rows} |->
           IF \E p \in rows : p.name = n
           THEN ValWith(CHOOSE p \in rows : p.name = n, names)
           ELSE base[1][n]]>>

\* no binding
NoNames == <<[n \in {} |-> Raised]>>

\* the names Param._expand_vars collects for a row of the tables d
NamesOf(d, param) ==
  LET globals == {p \in d.params : p.pipeline_id = 0 /\ p.job_id = 0}
      global_names == Bind(globals, NoNames, NoNames)
      OfPipeline(id) ==
        Bind({p \in d.params : p.pipeline_id = id}, global_names, global_names)
  IN IF param.job_id # 0
     THEN OfPipeline((CHOOSE j \in d.jobs : j.id = param.job_id).pipeline_id)
     ELSE IF param.pipeline_id # 0 THEN global_names ELSE NoNames

\* Param.val
val(d, param) == ValWith(param, NamesOf(d, param))

\* ------------------------------------------------------------------ Init
\* no handler is in progress
NoHandlers == [h \in 1..MaxHandlers |-> <<>>]

\* the rows a start condition table may hold: distinct ends, one row per
\* ordered pair of jobs, no cycle.  A job reads its own rows in id order and
\* the order of the rows of two jobs is read nowhere: the rows are listed
\* job by job.
StartConditionRows(js) ==
  [job_id : js, preceding_job_id : js, condition : Conditions]

Acyclic(scs) ==
  \E rank \in [JobIds -> 1..Cardinality(JobIds)] :
    \A i \in DOMAIN scs : rank[scs[i].preceding_job_id] < rank[scs[i].job_id]

StartConditionTables(js) ==
  {scs \in UNION {[1..n -> StartConditionRows(js)] : n \in 0..MaxEdges} :
     /\ \A i, k \in DOMAIN scs :
          i # k => <<scs[i].job_id, scs[i].preceding_job_id>>
                   # <<scs[k].job_id, scs[k].preceding_job_id>>
     /\ \A i, k \in DOMAIN scs : i < k => scs[i].job_id <= scs[k].job_id
     /\ Acyclic(scs)}

\* Pipeline.__init__ calls get_ready before any job exists; job rows are
\* created with status 'idle' and enqueued_workers_count 0
Init ==
  /\ jobs \in {1..n : n \in 0..Cardinality(JobIds)}
  /\ start_conditions \in StartConditionTables(jobs)
  /\ bad_param \in {{}} \cup {{j} : j \in jobs}
  /\ pipeline_status = "idle"
  /\ job_status = [j \in JobIds |-> "idle"]
  /\ enqueued_workers_count = [j \in JobIds |-> 0]
  /\ cache = [k \in Keys |->
                IF k \in {CACHE_KEY_FAILED_JOBS, CACHE_KEY_REMAINING_JOBS}
                THEN <<0>>
                ELSE IF k = CACHE_KEY_LIST_OF_TASKS_ENQUEUED
                     THEN << <<>> >> ELSE <<>>]
  /\ queue = {}
  /\ mails = 0
  /\ runs = 0
  /\ enqueues = 0
  /\ n_run = [j \in JobIds |-> 0]
  /\ n_edge_failed = [j \in JobIds |-> 0]
  /\ cb_failed = [j \in JobIds |-> FALSE]
  /\ marked = <<>>
  /\ twin = <<>>
  /\ db = NoRows
  /\ val_of = <<>>
  /\ single = <<>>
  /\ handlers = NoHandlers

\* --------------------------------------------------------------- actions
\* the state a handler leaves behind
InstallState(n) ==
  /\ pipeline_status' = n.pipeline_status
  /\ job_status' = n.job_status
  /\ enqueued_workers_count' = n.enqueued_workers_count
  /\ cache' = n.cache
  /\ queue' = n.queue
  /\ mails' = n.mails
  /\ n_run' = n.n_run
  /\ n_edge_failed' = n.n_edge_failed
  /\ cb_failed' = n.cb_failed
  /\ UNCHANGED <<jobs, start_conditions, bad_param, db, val_of>>

Install(n) == InstallState(n) /\ UNCHANGED <<single, handlers>>

\* the state the next handler starts from
Settle(n) ==
  [n EXCEPT !.mem_status = n.pipeline_status, !.finishes = 0, !.ret = FALSE]

\* the handler state of the history without the second delivery; the two
\* histories are one until the second delivery
TwinState == IF twin = <<>> THEN State ELSE twin[1]

\* the state the same handler leaves behind in that history
InstallTwin(m) == twin' = IF twin = <<>> THEN <<>> ELSE <<Settle(m)>>

\* a run begins: the per-run tallies start from zero
BeginRun(s) ==
  [s EXCEPT !.mails = 0,
            !.n_run = [j \in JobIds |-> 0],
            !.n_edge_failed = [j \in JobIds |-> 0],
            !.cb_failed = [j \in JobIds |-> FALSE]]

\* Pipeline.start, with the tallies of the run it begins
StartRun(s) ==
  IF PipelineStart(s).ret THEN PipelineStart(BeginRun(s)) ELSE PipelineStart(s)

\* the operator or the scheduler calls Pipeline.start
DoPipelineStart ==
  /\ Cardinality(jobs) * (runs + 1) <= MaxJobRuns
  /\ Install(StartRun(State))
  /\ InstallTwin(StartRun(TwinState))
  /\ runs' = IF StartRun(State).ret \/ StartRun(TwinState).ret
             THEN runs + 1 ELSE runs
  /\ UNCHANGED <<enqueues, marked>>

\* the operator calls Pipeline.stop
DoPipelineStop ==
  /\ Install(PipelineStop(State))
  /\ InstallTwin(PipelineStop(TwinState))
  /\ UNCHANGED <<runs, enqueues, marked>>

\* a worker asks for one more task of its job (Job.enqueue)
DoEnqueue(j) ==
  /\ j \in jobs
  /\ enqueues < MaxEnqueues
  /\ Install(enqueue(State, j))
  /\ InstallTwin(enqueue(TwinState, j))
  /\ enqueues' = IF enqueue(State, j).ret \/ enqueue(TwinState, j).ret
                 THEN enqueues + 1 ELSE enqueues
  /\ UNCHANGED <<runs, marked>>

\* the tasks whose callback is due: outstanding, and outstanding as well in
\* the history without the second delivery
Due == {t \in queue : twin = <<>> \/ t \in twin[1].queue}

\* the handlers of the two callbacks of task t
OnSucceeded(s, t) == worker_succeeded([s EXCEPT !.queue = @ \ {t}], t[1], t)

OnFailed(s, t) ==
  worker_failed([s EXCEPT !.queue = @ \ {t}, !.cb_failed[t[1]] = TRUE],
                t[1], t)

\* the callback of a finished task: each task delivers one
DoWorkerSucceeded(t) ==
  /\ t \in Due
  /\ Install(OnSucceeded(State, t))
  /\ InstallTwin(OnSucceeded(TwinState, t))
  /\ UNCHANGED <<runs, enqueues, marked>>

DoWorkerFailed(t) ==
  /\ t \in Due
  /\ Install(OnFailed(State, t))
  /\ InstallTwin(OnFailed(TwinState, t))
  /\ UNCHANGED <<runs, enqueues, marked>>

Next ==
  \/ DoPipelineStart
  \/ DoPipelineStop
  \/ \E j \in JobIds : DoEnqueue(j)
  \/ \E t \in queue : DoWorkerSucceeded(t)
  \/ \E t \in queue : DoWorkerFailed(t)

Spec == Init /\ [][Next]_vars

\* --------------------------------------------- at-least-once task delivery
\* the first delivery of the worker_succeeded callback that comes twice
DoWorkerSucceededFirst(t) ==
  /\ t \in queue
  /\ marked = <<>>
  /\ Install(OnSucceeded(State, t))
  /\ marked' = <<t>>
  /\ UNCHANGED <<runs, enqueues, twin>>

\* its second delivery; from here the history without it is kept beside
DoWorkerSucceededAgain ==
  /\ marked # <<>>
  /\ twin = <<>>
  /\ Install(OnSucceeded(State, marked[1]))
  /\ twin' = <<State>>
  /\ UNCHANGED <<runs, enqueues, marked>>

NextDup ==
  \/ Next
  \/ \E t \in queue : DoWorkerSucceededFirst(t)
  \/ DoWorkerSucceededAgain

\* the program with one worker_succeeded callback delivered twice
SpecDup == Init /\ [][NextDup]_vars

\* ------------------------------------------------ running a single job
\* Pipeline.start_single_job, with the tallies of the run it begins
StartSingle(s, j) ==
  IF start_single_job(s, j).ret THEN start_single_job(BeginRun(s), j)
  ELSE start_single_job(s, j)

\* the operator runs one job of the pipeline, once in a behaviour; the
\* handler state before and after an accepted call is kept
DoStartSingleJob(j) ==
  /\ j \in jobs
  /\ single = <<>>
  /\ InstallState(StartSingle(State, j))
  /\ InstallTwin(StartSingle(TwinState, j))
  /\ single' = IF StartSingle(State, j).ret
               THEN <<[job |-> j, before |-> State,
                       after |-> Settle(StartSingle(State, j))]>>
               ELSE <<>>
  /\ UNCHANGED <<runs, enqueues, marked, handlers>>

\* the single-job run is the operator's last call of a behaviour: after it
\* the callbacks of the outstanding tasks come in
NextSingle ==
  \/ single = <<>> /\ Next
  \/ \E j \in JobIds : DoStartSingleJob(j)
  \/ single # <<>> /\ \E t \in queue : DoWorkerSucceeded(t)
  \/ single # <<>> /\ \E t \in queue : DoWorkerFailed(t)

\* the program with the operator's single-job run
SpecSingle == Init /\ [][NextSingle]_vars

\* a callback is delivered: its handler takes the task off the queue
Deliver == \E t \in queue \ queue' : DoWorkerSucceeded(t) \/ DoWorkerFailed(t)

\* weak fairness of Deliver, WF_vars(Deliver), written out: a callback
\* handler always runs and takes its task off the queue, so that
\* ENABLED <<Deliver>>_vars is queue # {}
FairSpec == Spec /\ ([]<>(queue = {}) \/ []<><<Deliver>>_vars)

\* -------------------------------------------------- handlers that interleave
\* A handler in progress is the stack of the calls it is in.  A frame is a
\* call at the cache, queue or database operation it does next: op is the
\* method, j the job it is called on, pc the operation, t a task name and v a
\* local value (a loop index, or the enqueued_workers_count attribute of the
\* Job object the handler holds).
Frame(op, j, pc, t, v) == [op |-> op, j |-> j, pc |-> pc, t |-> t, v |-> v]

NoTask == <<0, 0>>

Call(op, j) == Frame(op, j, 1, NoTask, 1)

\* the result of one operation: the shared state, the frames that replace
\* the frame that did it, and whether an exception ended the handler
Step(s, push) == [s |-> s, push |-> push, raise |-> FALSE]

Raise(s) == [s |-> s, push |-> <<>>, raise |-> TRUE]

\* the jobs of the pipeline in query order, and those that precede no job
JobSeq == SortedSeq(jobs)

SinkSeq ==
  SortedSeq({j \in jobs : ~ \E sc \in Range(start_conditions) :
                              sc.preceding_job_id = j})

\* Job.worker_succeeded, operation by operation
ExecWorkerSucceeded(s, f) ==
  CASE f.pc = 1 ->
         Step(_delete_task_name_cache(s, f.t), <<[f EXCEPT !.pc = 2]>>)
    [] f.pc = 2 ->
         Step(_decrease_value_cache(
                s, _get_job_prefix(f.j) \o CACHE_KEY_ENQUEUED_TASKS, <<f.v>>),
              <<[f EXCEPT !.pc = 3]>>)
    [] f.pc = 3 ->
         IF s.cache[EnqueuedKey(f.j)] = <<0>>
         THEN Step(s, <<[f EXCEPT !.pc = 4]>>)
         ELSE Step(s, <<>>)
    [] f.pc = 4 ->
         Step(s, <<Call(IF get_status(s, f.j) # "failed"
                        THEN "set_succeeded_status"
                        ELSE "set_failed_status", f.j),
                   Call("_start_dependent_jobs", f.j)>>)

\* Job.worker_failed
ExecWorkerFailed(s, f) ==
  CASE f.pc = 1 ->
         Step(_delete_task_name_cache(s, f.t), <<[f EXCEPT !.pc = 2]>>)
    [] f.pc = 2 ->
         Step(_decrease_value_cache(
                s, _get_job_prefix(f.j) \o CACHE_KEY_ENQUEUED_TASKS, <<>>),
              <<Call("set_failed_status", f.j), [f EXCEPT !.pc = 3]>>)
    [] f.pc = 3 ->
         IF s.cache[EnqueuedKey(f.j)] = <<0>>
         THEN Step(s, <<Call("_start_dependent_jobs", f.j)>>)
         ELSE Step(s, <<>>)

\* Job.set_failed_status
ExecSetFailedStatus(s, f) ==
  CASE f.pc = 1 ->
         Step(_increase_value_cache(s, CACHE_KEY_FAILED_JOBS, <<>>),
              <<[f EXCEPT !.pc = 2]>>)
    [] f.pc = 2 ->
         Step(_decrease_value_cache(s, CACHE_KEY_REMAINING_JOBS,
                                    <<Cardinality(jobs)>>),
              <<[f EXCEPT !.pc = 3]>>)
    [] f.pc = 3 ->
         Step([s EXCEPT !.cache = set_cache(s.cache, StatusKey(f.j), "failed")],
              <<[f EXCEPT !.pc = 4]>>)
    [] f.pc = 4 ->
         Step([s EXCEPT !.job_status[f.j] = "failed"], <<>>)

\* Job.set_succeeded_status
ExecSetSucceededStatus(s, f) ==
  CASE f.pc = 1 ->
         Step(_decrease_value_cache(s, CACHE_KEY_REMAINING_JOBS,
                                    <<Cardinality(jobs)>>),
              <<[f EXCEPT !.pc = 2]>>)
    [] f.pc = 2 ->
         Step([s EXCEPT !.cache =
                 set_cache(s.cache, StatusKey(f.j), "succeeded")],
              <<[f EXCEPT !.pc = 3]>>)
    [] f.pc = 3 ->
         Step([s EXCEPT !.job_status[f.j] = "succeeded"], <<>>)

\* Job.start: v is the index of the start condition looked at; each
\* get_status of the preceding job is a read of its own
ExecStart(s, f) ==
  CASE f.pc = 1 ->
         IF get_status(s, f.j) # "waiting"
         THEN Step(s, <<>>)
         ELSE Step(s, <<[f EXCEPT !.pc = 2, !.v = 1]>>)
    [] f.pc = 2 ->
         IF _start_condition_is_fulfuilled(s, JobStartConditions(f.j)[f.v])
         THEN Step(s, <<[f EXCEPT !.pc = 3]>>)
         ELSE Step([s EXCEPT !.n_edge_failed[f.j] = @ + 1],
                   <<Call("set_failed_status", f.j),
                     Call("_start_dependent_jobs", f.j)>>)
    [] f.pc = 3 ->
         IF get_status(s, JobStartConditions(f.j)[f.v].preceding_job_id)
              \notin {"succeeded", "failed"}
         THEN Step(s, <<>>)
         ELSE Step(s, <<[f EXCEPT !.pc = 2, !.v = @ + 1]>>)

\* Job.run: the attribute enqueued_workers_count is 0 from here
ExecRun(s, f) ==
  LET s1 == [s EXCEPT !.cache = set_cache(s.cache, StatusKey(f.j), "running"),
                      !.n_run[f.j] = @ + 1]
  IN IF f.j \in bad_param
     THEN Raise([s1 EXCEPT !.n_run[f.j] = s.n_run[f.j]])
     ELSE Step(s1, <<Frame("enqueue", f.j, 1, NoTask, 0)>>)

\* Job.enqueue: v is the attribute enqueued_workers_count, t the task name
ExecEnqueue(s, f) ==
  CASE f.pc = 1 ->
         IF get_status(s, f.j) # "running"
         THEN Step(s, <<>>)
         ELSE Step(s, <<[f EXCEPT !.pc = 2]>>)
    [] f.pc = 2 ->
         Step(_add_task_name_cache(s, <<f.j, uuid4(s, f.j)>>),
              <<[f EXCEPT !.pc = 3, !.t = <<f.j, uuid4(s, f.j)>>]>>)
    [] f.pc = 3 ->
         Step([s EXCEPT !.queue = @ \cup {f.t}], <<[f EXCEPT !.pc = 4]>>)
    [] f.pc = 4 ->
         Step(_increase_value_cache(
                s, _get_job_prefix(f.j) \o CACHE_KEY_ENQUEUED_TASKS, <<>>),
              <<[f EXCEPT !.pc = 5, !.v = @ + 1]>>)
    [] f.pc = 5 ->
         Step([s EXCEPT !.enqueued_workers_count[f.j] = f.v], <<>>)

\* Pipeline.job_finished: v is the index of the job whose status is read
ExecJobFinished(s, f) ==
  IF get_status(s, JobSeq[f.v]) \notin {"succeeded", "failed", "idle"}
  THEN Step(s, <<>>)
  ELSE Step(s, <<[f EXCEPT !.v = @ + 1]>>)

\* Pipeline._finish: at pc 1, v is the index of the sink job whose status is
\* read; at pc 2, v is 1 for 'failed' and 0 for 'succeeded'
ExecFinish(s, f) ==
  CASE f.pc = 1 ->
         IF get_status(s, SinkSeq[f.v]) = "failed"
         THEN Step(s, <<[f EXCEPT !.pc = 2, !.v = 1]>>)
         ELSE Step(s, <<[f EXCEPT !.v = @ + 1]>>)
    [] f.pc = 2 ->
         Step([s EXCEPT !.pipeline_status =
                          IF f.v = 1 THEN "failed" ELSE "succeeded",
                        !.mails = @ + 1],
              <<>>)

\* Pipeline.start: v is the index of the job a loop is at.  In Job.get_ready
\* a prepare_for_start that returns False reaches a logger that is bound
\* only in the except branch, which raises.
ExecPipelineStart(s, f) ==
  CASE f.pc = 1 ->
         IF s.pipeline_status \notin {"idle", "finished", "failed", "succeeded"}
         THEN Step(s, <<>>)
         ELSE Step(s, <<[f EXCEPT !.pc = 2]>>)
    [] f.pc = 2 ->
         Step(PipelineGetReady(s),
              IF Cardinality(jobs) < 1 THEN <<>>
              ELSE <<[f EXCEPT !.pc = 3, !.v = 1]>>)
    [] f.pc = 3 ->
         IF get_status(s, JobSeq[f.v]) \notin {"idle", "succeeded", "failed"}
         THEN Step(s, <<>>)
         ELSE Step(s, <<[f EXCEPT !.v = @ + 1]>>)
    [] f.pc = 4 ->
         IF JobSeq[f.v] \in bad_param
         THEN Step(s, <<>>)
         ELSE IF get_status(s, JobSeq[f.v])
                   \notin {"idle", "succeeded", "failed"}
              THEN Raise(s)
              ELSE Step(s, <<[f EXCEPT !.pc = 5]>>)
    [] f.pc = 5 ->
         Step([s EXCEPT !.cache =
                 set_cache(s.cache, StatusKey(JobSeq[f.v]), "waiting")],
              <<[f EXCEPT !.pc = 4, !.v = @ + 1]>>)
    [] f.pc = 7 ->
         Step([s EXCEPT !.pipeline_status = "running"], <<>>)

\* the operation of frame f on the shared state s
Exec(s, f) ==
  CASE f.op = "worker_succeeded" -> ExecWorkerSucceeded(s, f)
    [] f.op = "worker_failed" -> ExecWorkerFailed(s, f)
    [] f.op = "set_failed_status" -> ExecSetFailedStatus(s, f)
    [] f.op = "set_succeeded_status" -> ExecSetSucceededStatus(s, f)
    [] f.op = "start" -> ExecStart(s, f)
    [] f.op = "run" -> ExecRun(s, f)
    [] f.op = "enqueue" -> ExecEnqueue(s, f)
    [] f.op = "job_finished" -> ExecJobFinished(s, f)
    [] f.op = "_finish" -> ExecFinish(s, f)
    [] f.op = "Pipeline.start" -> ExecPipelineStart(s, f)

\* the control between two operations: a loop that is over goes on to what
\* follows it, a loop over calls makes the next call, so that the innermost
\* frame is at an operation
RECURSIVE Norm(_)
Norm(stack) ==
  IF stack = <<>> THEN <<>>
  ELSE LET f == Head(stack)
           rest == Tail(stack)
       IN CASE f.op = "_start_dependent_jobs" ->
                 IF f.v <= Len(dependent_jobs(f.j))
                 THEN Norm(<<Call("start", dependent_jobs(f.j)[f.v]),
                             [f EXCEPT !.v = @ + 1]>> \o rest)
                 ELSE Norm(<<Call("job_finished", f.j)>> \o rest)
            [] f.op = "start" /\ f.pc = 2
                 /\ f.v > Len(JobStartConditions(f.j)) ->
                 Norm(<<Call("run", f.j)>> \o rest)
            [] f.op = "job_finished" /\ f.v > Len(JobSeq) ->
                 Norm(<<Call("_finish", f.j)>> \o rest)
            [] f.op = "_finish" /\ f.pc = 1 /\ f.v > Len(SinkSeq) ->
                 Norm(<<[f EXCEPT !.pc = 2, !.v = 0]>> \o rest)
            [] f.op = "Pipeline.start" /\ f.pc = 3 /\ f.v > Len(JobSeq) ->
                 Norm(<<[f EXCEPT !.pc = 4, !.v = 1]>> \o rest)
            [] f.op = "Pipeline.start" /\ f.pc = 4 /\ f.v > Len(JobSeq) ->
                 Norm(<<[f EXCEPT !.pc = 6, !.v = 1]>> \o rest)
            [] f.op = "Pipeline.start" /\ f.pc = 6 ->
                 IF f.v <= Len(JobSeq)
                 THEN Norm(<<Call("start", JobSeq[f.v]),
                             [f EXCEPT !.v = @ + 1]>> \o rest)
                 ELSE Norm(<<[f EXCEPT !.pc = 7]>> \o rest)
            [] OTHER -> stack

\* the free handler a request is given, and the handlers with it in progress
FreeHandler == CHOOSE h \in 1..MaxHandlers :
                 /\ handlers[h] = <<>>
                 /\ \A g \in 1..(h - 1) : handlers[g] # <<>>

Begin(f) == [handlers EXCEPT ![FreeHandler] = Norm(<<f>>)]

\* one pipeline: a single job, or two jobs and a third that starts after
\* both, after the second on its success
RaceTables(js) ==
  IF Cardinality(js) = 1 THEN {<<>>}
  ELSE {<<[job_id |-> 3, preceding_job_id |-> 1, condition |-> c1],
          [job_id |-> 3, preceding_job_id |-> 2, condition |-> "success"]>> :
          c1 \in Conditions}

InitRace ==
  /\ jobs \in {1..1, 1..3}
  /\ start_conditions \in RaceTables(jobs)
  /\ bad_param = {}
  /\ pipeline_status = "idle"
  /\ job_status = [j \in JobIds |-> "idle"]
  /\ enqueued_workers_count = [j \in JobIds |-> 0]
  /\ cache = [k \in Keys |->
                IF k \in {CACHE_KEY_FAILED_JOBS, CACHE_KEY_REMAINING_JOBS}
                THEN <<0>>
                ELSE IF k = CACHE_KEY_LIST_OF_TASKS_ENQUEUED
                     THEN << <<>> >> ELSE <<>>]
  /\ queue = {}
  /\ mails = 0
  /\ runs = 0
  /\ enqueues = 0
  /\ n_run = [j \in JobIds |-> 0]
  /\ n_edge_failed = [j \in JobIds |-> 0]
  /\ cb_failed = [j \in JobIds |-> FALSE]
  /\ marked = <<>>
  /\ twin = <<>>
  /\ db = NoRows
  /\ val_of = <<>>
  /\ single = <<>>
  /\ handlers = NoHandlers

\* what no operation of a handler writes
race_frame == <<jobs, start_conditions, bad_param, marked, twin, db, val_of,
                single>>

\* a request for Pipeline.start comes in, while none has returned True
DoBeginPipelineStart ==
  /\ \E h \in 1..MaxHandlers : handlers[h] = <<>>
  /\ runs = 0
  /\ \A h \in 1..MaxHandlers :
       IF handlers[h] = <<>> THEN TRUE
       ELSE handlers[h][Len(handlers[h])].op # "Pipeline.start"
  /\ handlers' = Begin(Call("Pipeline.start", 0))
  /\ UNCHANGED <<race_frame, pipeline_status, job_status,
                 enqueued_workers_count, cache, queue, mails, runs, enqueues,
                 n_run, n_edge_failed, cb_failed>>

\* the callback of a finished task comes in: the handler loads the job
DoBeginWorkerSucceeded(t) ==
  /\ \E h \in 1..MaxHandlers : handlers[h] = <<>>
  /\ t \in queue
  /\ queue' = queue \ {t}
  /\ handlers' = Begin(Frame("worker_succeeded", t[1], 1, t,
                             enqueued_workers_count[t[1]]))
  /\ UNCHANGED <<race_frame, pipeline_status, job_status,
                 enqueued_workers_count, cache, mails, runs, enqueues,
                 n_run, n_edge_failed, cb_failed>>

DoBeginWorkerFailed(t) ==
  /\ \E h \in 1..MaxHandlers : handlers[h] = <<>>
  /\ t \in queue
  /\ queue' = queue \ {t}
  /\ cb_failed' = [cb_failed EXCEPT ![t[1]] = TRUE]
  /\ handlers' = Begin(Frame("worker_failed", t[1], 1, t, 0))
  /\ UNCHANGED <<race_frame, pipeline_status, job_status,
                 enqueued_workers_count, cache, mails, runs, enqueues,
                 n_run, n_edge_failed>>

\* the worker of an outstanding task of job j asks for one more task, while
\* job rows times such calls stay within MaxEnqueues
DoBeginEnqueue(j) ==
  /\ \E h \in 1..MaxHandlers : handlers[h] = <<>>
  /\ \E t \in queue : t[1] = j
  /\ Cardinality(jobs) * (enqueues + 1) <= MaxEnqueues
  /\ enqueues' = enqueues + 1
  /\ handlers' = Begin(Frame("enqueue", j, 1, NoTask,
                             enqueued_workers_count[j]))
  /\ UNCHANGED <<race_frame, pipeline_status, job_status,
                 enqueued_workers_count, cache, queue, mails, runs,
                 n_run, n_edge_failed, cb_failed>>

\* handler h does its next operation
DoStep(h) ==
  /\ handlers[h] # <<>>
  /\ InstallState(Exec(State, Head(handlers[h])).s)
  /\ handlers' =
       [handlers EXCEPT ![h] =
          IF Exec(State, Head(handlers[h])).raise THEN <<>>
          ELSE Norm(Exec(State, Head(handlers[h])).push \o Tail(handlers[h]))]
  /\ runs' = IF Head(handlers[h]).op = "Pipeline.start"
                /\ Head(handlers[h]).pc = 7
             THEN runs + 1 ELSE runs
  /\ UNCHANGED <<enqueues, marked, twin, single>>

NextRace ==
  \/ DoBeginPipelineStart
  \/ \E t \in queue : DoBeginWorkerSucceeded(t)
  \/ \E t \in queue : DoBeginWorkerFailed(t)
  \/ \E j \in jobs : DoBeginEnqueue(j)
  \/ \E h \in 1..MaxHandlers : DoStep(h)

\* the program with handlers that interleave operation by operation
SpecRace == InitRace /\ [][NextRace]_vars

\* ------------------------------------------------------- reading a param
\* the variables of a pipeline run
run_vars ==
  <<jobs, start_conditions, bad_param, pipeline_status, job_status,
    enqueued_workers_count, cache, queue, mails, runs, enqueues, n_run,
    n_edge_failed, cb_failed, marked, twin, single, handlers>>

\* the raw values of the params read
Template_x_y_5 ==
  <<"{", "%", " ", "x", " ", "%", "}", " ", "+", " ",
    "{", "%", " ", "y", " ", "%", "}", " ", "+", " ", "5">>

Template_sum == <<"{", "%", " ", "x", " ", "+", " ", "y", " ", "+", " ",
                  "5", " ", "%", "}">>

Template_x == <<"{", "%", " ", "x", " ", "%", "}">>

RawValues == {Template_x_y_5, Template_sum, Template_x, <<"5">>}

\* one pipeline with one job, a global param x, a pipeline param y and a
\* job param z
ParamTables(x, y, z) ==
  [NoRows EXCEPT
     !.pipelines = {1},
     !.jobs = {[id |-> 1, pipeline_id |-> 1]},
     !.params = {[id |-> 1, name |-> "x", pipeline_id |-> 0, job_id |-> 0,
                  type |-> x.type, value |-> x.value],
                 [id |-> 2, name |-> "y", pipeline_id |-> 1, job_id |-> 0,
                  type |-> y.type, value |-> y.value],
                 [id |-> 3, name |-> "z", pipeline_id |-> 0, job_id |-> 1,
                  type |-> z.type, value |-> z.value]},
     !.next = [@ EXCEPT !.pipelines = 2, !.jobs = 2, !.params = 4]]

InitParam ==
  /\ jobs = {}
  /\ start_conditions = <<>>
  /\ bad_param = {}
  /\ pipeline_status = "idle"
  /\ job_status = [j \in JobIds |-> "idle"]
  /\ enqueued_workers_count = [j \in JobIds |-> 0]
  /\ cache = [k \in Keys |-> <<>>]
  /\ queue = {}
  /\ mails = 0
  /\ runs = 0
  /\ enqueues = 0
  /\ n_run = [j \in JobIds |-> 0]
  /\ n_edge_failed = [j \in JobIds |-> 0]
  /\ cb_failed = [j \in JobIds |-> FALSE]
  /\ marked = <<>>
  /\ twin = <<>>
  /\ \E x \in [type : {"string", "number"}, value : {<<"2">>, <<"1", "2">>}],
        y \in [type : {"string", "number"}, value : {<<"3">>, <<"7">>}],
        z \in [type : {"string", "number"}, value : RawValues] :
       db = ParamTables(x, y, z)
  /\ val_of = <<>>
  /\ single = <<>>
  /\ handlers = NoHandlers

\* a reader evaluates Param.val of a row
DoParamVal(param) ==
  /\ val_of' = <<[param |-> param.id, val |-> val(db, param)]>>
  /\ UNCHANGED <<run_vars, db>>

NextParam == \E param \in db.params : DoParamVal(param)

SpecParam == InitParam /\ [][NextParam]_vars

\* ------------------------------------------- administering the pipelines
\* the param and schedule entries of a descriptor; they carry no id
ParamEntries ==
  <<(<<>>), <<[name |-> "x", type |-> "number", value |-> <<"5">>]>>>>

ScheduleEntries == <<(<<>>), <<[cron |-> "daily"]>>>>

\* the lists of at most n entries over a set
ListsOver(S, n) == UNION {[1..k -> S] : k \in 0..n}

\* the job descriptors: each job carries its own source id and at most one
\* start condition, which names a job of the same descriptor
JobEntries(ids, ps) ==
  [id : ids, params : {ps},
   hash_start_conditions :
     ListsOver([preceding_job_id : ids, condition : {"success", "fail"}], 1)]

\* the descriptors Pipeline.import_data is given: a pipeline exported bare,
\* or with a param on itself and on each job and with a schedule; the source
\* ids of its jobs differ
Descriptors ==
  UNION {
    {[params |-> ParamEntries[e], schedules |-> ScheduleEntries[e],
      jobs |-> js] :
       js \in {l \in [1..k -> JobEntries(1..k, ParamEntries[e])] :
                 \A a, b \in 1..k : a # b => l[a].id # l[b].id}} :
    <<k, e>> \in (0..MaxListLen) \X {1, 2}}

\* the lists Job.assign_start_conditions is given: each entry names a job row
StartConditionLists ==
  ListsOver([preceding_job_id : {j.id : j \in db.jobs},
             condition : Conditions], MaxListLen)

\* no table outgrows the bound
WithinRows(d) ==
  \A table \in {"jobs", "params", "start_conditions", "schedules"} :
    d.next[table] <= MaxRows + 1

InitAdmin ==
  /\ jobs = {}
  /\ start_conditions = <<>>
  /\ bad_param = {}
  /\ pipeline_status = "idle"
  /\ job_status = [j \in JobIds |-> "idle"]
  /\ enqueued_workers_count = [j \in JobIds |-> 0]
  /\ cache = [k \in Keys |-> <<>>]
  /\ queue = {}
  /\ mails = 0
  /\ runs = 0
  /\ enqueues = 0
  /\ n_run = [j \in JobIds |-> 0]
  /\ n_edge_failed = [j \in JobIds |-> 0]
  /\ cb_failed = [j \in JobIds |-> FALSE]
  /\ marked = <<>>
  /\ twin = <<>>
  /\ db = NoRows
  /\ val_of = <<>>
  /\ single = <<>>
  /\ handlers = NoHandlers

admin_vars ==
  <<jobs, start_conditions, bad_param, pipeline_status, job_status,
    enqueued_workers_count, queue, mails, runs, enqueues, n_run,
    n_edge_failed, cb_failed, marked, twin, val_of, single, handlers>>

\* Pipeline(name).save(): the constructor calls get_ready, which counts the
\* jobs of a pipeline that has none yet; the row gets the next id
PipelineCreate(d) ==
  [d EXCEPT !.pipelines = @ \cup {d.next.pipelines},
            !.next.pipelines = @ + 1]

DoPipelineCreate ==
  /\ db.next.pipelines <= MaxPipelines
  /\ db' = PipelineCreate(db)
  /\ cache' = set_cache(set_cache(set_cache(cache,
                CACHE_KEY_FAILED_JOBS, 0),
                CACHE_KEY_REMAINING_JOBS, 0),
                CACHE_KEY_LIST_OF_TASKS_ENQUEUED, <<>>)
  /\ UNCHANGED admin_vars

DoImportData(pipeline_id, data) ==
  /\ pipeline_id \in db.pipelines
  /\ db.next.jobs + Len(data.jobs) <= MaxRows + 1
  /\ WithinRows(import_data(db, pipeline_id, data))
  /\ db' = import_data(db, pipeline_id, data)
  /\ UNCHANGED <<admin_vars, cache>>

DoAssignStartConditions(job_id, arg_start_conditions) ==
  /\ job_id \in {j.id : j \in db.jobs}
  /\ WithinRows(assign_start_conditions(db, job_id, arg_start_conditions))
  /\ db' = assign_start_conditions(db, job_id, arg_start_conditions)
  /\ UNCHANGED <<admin_vars, cache>>

DoJobDestroy(job_id) ==
  /\ job_id \in {j.id : j \in db.jobs}
  /\ db' = JobDestroy(db, job_id)
  /\ UNCHANGED <<admin_vars, cache>>

DoPipelineDestroy(pipeline_id) ==
  /\ pipeline_id \in db.pipelines
  /\ db' = PipelineDestroy(db, pipeline_id)
  /\ UNCHANGED <<admin_vars, cache>>

NextAdmin ==
  \/ DoPipelineCreate
  \/ \E pipeline_id \in db.pipelines, data \in Descriptors :
       DoImportData(pipeline_id, data)
  \/ \E j \in db.jobs, l \in StartConditionLists :
       DoAssignStartConditions(j.id, l)
  \/ \E j \in db.jobs : DoJobDestroy(j.id)
  \/ \E pipeline_id \in db.pipelines : DoPipelineDestroy(pipeline_id)

SpecAdmin == InitAdmin /\ [][NextAdmin]_vars

\* ================================================================ claims
\* a job's effective status: the cache entry, else the status column
EffectiveStatus(j) == get_status(State, j)

Terminal == {"succeeded", "failed"}

\* C1: for every start condition A -> B, B's effective status does not
\* become 'running' in a step that leaves A's effective status outside
\* {succeeded, failed}.
C1_RunsAfterPredecessor ==
  [][\A i \in DOMAIN start_conditions :
       LET a == start_conditions[i].preceding_job_id
           b == start_conditions[i].job_id
       IN (EffectiveStatus(b) # "running" /\ EffectiveStatus(b)' = "running")
          => EffectiveStatus(a)' \in Terminal]_vars

\* a job with a predecessor is running
C1_Witness ==
  \E i \in DOMAIN start_conditions :
    /\ EffectiveStatus(start_conditions[i].job_id) = "running"
    /\ EffectiveStatus(start_conditions[i].preceding_job_id) \in Terminal

\* the cache status of job j moves to 'succeeded' or 'failed' in this step
EndsJob(j) ==
  /\ cache'[StatusKey(j)] # cache[StatusKey(j)]
  /\ cache'[StatusKey(j)] \in {<<"succeeded">>, <<"failed">>}

\* C2 as stated: a worker_succeeded or worker_failed callback moves the
\* job's cache status to 'succeeded' or 'failed' only with the job's
\* enqueued_tasks counter at 0 after the decrement.
C2_StatusOnlyAtZero ==
  [][\A t \in queue \ queue' :
       ((DoWorkerSucceeded(t) \/ DoWorkerFailed(t)) /\ EndsJob(t[1]))
       => cache'[EnqueuedKey(t[1])] = <<0>>]_vars

\* C2 amended: a worker_succeeded callback moves the job's cache status to
\* 'succeeded' or 'failed' only with the counter at 0 after the decrement,
\* and one that leaves the counter above 0 changes no job's status; a
\* worker_failed callback leaves the job 'failed' whatever the counter.
C2_SucceededOnlyAtZero ==
  [][\A t \in queue \ queue' :
       /\ DoWorkerSucceeded(t)
          => /\ EndsJob(t[1]) => cache'[EnqueuedKey(t[1])] = <<0>>
             /\ cache'[EnqueuedKey(t[1])] # <<0>>
                => /\ \A j \in JobIds :
                        cache'[StatusKey(j)] = cache[StatusKey(j)]
                   /\ job_status' = job_status
       /\ DoWorkerFailed(t) => cache'[StatusKey(t[1])] = <<"failed">>]_vars

\* a job that enqueued two tasks in its run has succeeded, counter at 0
C2_Witness ==
  \E j \in jobs :
    /\ enqueued_workers_count[j] = 2
    /\ cache[StatusKey(j)] = <<"succeeded">>
    /\ cache[EnqueuedKey(j)] = <<0>>
    /\ \A t \in queue : t[1] # j

\* the jobs of the pipeline that are the preceding job of no start condition
SinkJobs ==
  {j \in jobs : \A i \in DOMAIN start_conditions :
                  start_conditions[i].preceding_job_id # j}

\* C3: a handler that ran Pipeline._finish (it sent a notification) leaves
\* the pipeline 'failed' if some sink job's effective status is 'failed' and
\* 'succeeded' otherwise, whatever the status of the other jobs.
C3_FinishReadsSinks ==
  [][mails' > mails
     => pipeline_status' =
          IF \E j \in SinkJobs : EffectiveStatus(j)' = "failed"
          THEN "failed" ELSE "succeeded"]_vars

\* the pipeline finished 'succeeded' with a failed job that is not a sink
C3_Witness ==
  /\ mails > 0
  /\ pipeline_status = "succeeded"
  /\ \E j \in jobs \ SinkJobs : EffectiveStatus(j) = "failed"

\* the jobs that job j is a predecessor of, and the predecessors of job j
Dependents(j) ==
  {start_conditions[i].job_id :
     i \in {k \in DOMAIN start_conditions :
              start_conditions[k].preceding_job_id = j}}

Predecessors(j) ==
  {start_conditions[i].preceding_job_id :
     i \in {k \in DOMAIN start_conditions : start_conditions[k].job_id = j}}

\* the task names in list_of_tasks_enqueued
ListOfTasksEnqueued ==
  CacheGet(cache, PrefixedKey(CACHE_KEY_LIST_OF_TASKS_ENQUEUED), <<>>)

\* job j ran in this run, a worker_failed callback came for it and none of
\* its tasks is outstanding
FailedFanoutJoined(j) ==
  /\ n_run[j] = 1
  /\ cb_failed[j]
  /\ \A t \in queue : t[1] # j

\* C4 as stated: after the last callback of a job that ran and had a task
\* fail, the job is 'failed', each of its dependents entered 'running' or was
\* failed exactly once, and list_of_tasks_enqueued holds none of its names.
C4_FanoutJoin ==
  \A j \in jobs :
    FailedFanoutJoined(j)
    => /\ EffectiveStatus(j) = "failed"
       /\ \A d \in Dependents(j) : n_run[d] + n_edge_failed[d] = 1
       /\ \A i \in DOMAIN ListOfTasksEnqueued : ListOfTasksEnqueued[i][1] # j

\* C4 amended: after the last callback of a job that ran and had a task
\* fail, the job is 'failed', list_of_tasks_enqueued holds none of its
\* names, none of its dependents was started more than once, and no
\* dependent whose predecessors are all terminal with no task outstanding
\* is still 'waiting'.
C4_FanoutJoinAmended ==
  \A j \in jobs :
    FailedFanoutJoined(j)
    => /\ EffectiveStatus(j) = "failed"
       /\ \A d \in Dependents(j) :
            /\ n_run[d] + n_edge_failed[d] <= 1
            /\ (\A a \in Predecessors(d) :
                  /\ EffectiveStatus(a) \in Terminal
                  /\ \A t \in queue : t[1] # a)
               => EffectiveStatus(d) # "waiting"
       /\ \A i \in DOMAIN ListOfTasksEnqueued : ListOfTasksEnqueued[i][1] # j

\* a job with two tasks, one of them failed, has joined and its dependent
\* has been started
C4_Witness ==
  \E j \in jobs :
    /\ FailedFanoutJoined(j)
    /\ enqueued_workers_count[j] = 2
    /\ \E d \in Dependents(j) : n_run[d] + n_edge_failed[d] = 1

\* the value of a pipeline counter of the cache, 0 when it was never written
PipelineCounter(key) == CacheGet(cache, PrefixedKey(key), 0)

\* every job of the pipeline is succeeded or failed and no task is outstanding
RunOver ==
  /\ queue = {}
  /\ \A j \in jobs : EffectiveStatus(j) \in Terminal

\* C5: in a run begun by a Pipeline.start that returned true, the
\* finished-pipeline notification is never sent twice, and it has been sent
\* once when the run is over.
C5_NotifiedOnce ==
  runs > 0 => /\ mails <= 1
              /\ RunOver => mails = 1

\* C6: once Pipeline.start has returned true (the pipeline is 'running', or
\* 'stopping' after Pipeline.stop), eventually every job is succeeded or
\* failed and the pipeline is succeeded or failed.
C6_RunTerminates ==
  (pipeline_status \in {"running", "stopping"})
    ~> (/\ pipeline_status \in Terminal
        /\ \A j \in jobs : EffectiveStatus(j) \in Terminal)

\* Pipeline.stop left the pipeline 'stopping' with a job still waiting
C6_Witness ==
  /\ pipeline_status = "stopping"
  /\ \E j \in jobs : EffectiveStatus(j) = "waiting"

\* every job ran once in this run with its one task, no callback reported a
\* failure and every callback is in
AllSucceededOnce ==
  /\ runs > 0
  /\ queue = {}
  /\ \A j \in jobs : /\ n_run[j] = 1
                     /\ enqueued_workers_count[j] = 1
                     /\ ~ cb_failed[j]

\* C7: in a pipeline of 'success' edges whose tasks, one per job, all
\* reported worker_succeeded, once the callbacks are in every job and the
\* pipeline are 'succeeded' and failed_jobs and remaining_jobs are 0.
C7_LinearSuccess ==
  (/\ \A i \in DOMAIN start_conditions :
        start_conditions[i].condition = "success"
   /\ AllSucceededOnce)
  => /\ \A j \in jobs : EffectiveStatus(j) = "succeeded"
     /\ pipeline_status = "succeeded"
     /\ PipelineCounter(CACHE_KEY_FAILED_JOBS) = 0
     /\ PipelineCounter(CACHE_KEY_REMAINING_JOBS) = 0

\* C8: a job that Job.start failed on a violated start condition is
\* 'failed', never ran (so no task was enqueued for it), none of its
\* dependents whose predecessors have all ended is left waiting, and when it
\* is a sink a pipeline that has finished is 'failed'.
C8_ViolatedEdgeFails ==
  \A b \in jobs :
    n_edge_failed[b] >= 1
    => /\ EffectiveStatus(b) = "failed"
       /\ n_run[b] = 0
       /\ \A d \in Dependents(b) :
            (\A a \in Predecessors(d) :
               /\ EffectiveStatus(a) \in Terminal
               /\ \A t \in queue : t[1] # a)
            => EffectiveStatus(d) # "waiting"
       /\ (b \in SinkJobs /\ pipeline_status \in Terminal)
          => pipeline_status = "failed"

\* a job was failed by a violated edge, and so was its own dependent, a sink
C8_Witness ==
  \E b \in jobs :
    /\ n_edge_failed[b] = 1
    /\ \E d \in Dependents(b) \cap SinkJobs : n_edge_failed[d] = 1
    /\ pipeline_status = "failed"

\* what a history leaves of job j: its effective status, its enqueued_tasks
\* counter, the effective statuses of its dependents and the pipeline status
Outcome(s, j) ==
  [status |-> get_status(s, j),
   enqueued_tasks |-> CacheGet(s.cache, EnqueuedKey(j), 0),
   dependents |-> [d \in Dependents(j) |-> get_status(s, d)],
   pipeline |-> s.pipeline_status]

\* C9: once a worker_succeeded callback of job j has come twice and every
\* other callback is in, job j's status and counter, its dependents'
\* statuses and the pipeline status are those of the same history with the
\* callback delivered once.
C9_DuplicateSucceededIdempotent ==
  (twin # <<>> /\ queue = {} /\ twin[1].queue = {})
  => Outcome(State, marked[1][1]) = Outcome(twin[1], marked[1][1])

\* a callback of job j is handled in this step
HandlesCallback(j) ==
  \/ \E t \in queue :
       /\ t[1] = j
       /\ DoWorkerSucceeded(t) \/ DoWorkerFailed(t) \/ DoWorkerSucceededFirst(t)
  \/ marked # <<>> /\ marked[1][1] = j /\ DoWorkerSucceededAgain

\* the name of the callback handled in this step, when it is the second
\* delivery: it is not in list_of_tasks_enqueued
HandlesAbsentName ==
  /\ DoWorkerSucceededAgain
  /\ \A i \in DOMAIN ListOfTasksEnqueued : ListOfTasksEnqueued[i] # marked[1]

\* C10: a callback handled with the job's enqueued_tasks counter at 0 leaves
\* it at 0, worker_succeeded and worker_failed alike and whatever the job's
\* enqueued_workers_count; a callback whose task name is not in
\* list_of_tasks_enqueued removes no name from the list (the handler may
\* append the names of the tasks of the dependents it starts).
C10_DecrementClampedAtZero ==
  [][/\ \A j \in jobs :
          (HandlesCallback(j) /\ cache[EnqueuedKey(j)] = <<0>>)
          => cache'[EnqueuedKey(j)] = <<0>>
     /\ HandlesAbsentName
        => /\ Len(ListOfTasksEnqueued') >= Len(ListOfTasksEnqueued)
           /\ \A i \in DOMAIN ListOfTasksEnqueued :
                ListOfTasksEnqueued'[i] = ListOfTasksEnqueued[i]]_vars

\* a pipeline counter as the jobs read it, and as Pipeline.get_ready wrote
\* it while no job has written it
CounterSinceReady(key) ==
  CacheGet(cache, PrefixedKey(key), CacheGet(cache, key, 0))

\* the jobs that reached 'succeeded' or 'failed' in the current run
TerminatedJobs == {j \in jobs : EffectiveStatus(j) \in Terminal}

\* C11: while a run is on, remaining_jobs plus the number of jobs that
\* ended in the run is the number of jobs, and failed_jobs is at most the
\* number of jobs that ended.
C11_CountersTrackJobs ==
  (runs > 0 /\ pipeline_status \in {"running", "stopping"})
  => /\ CounterSinceReady(CACHE_KEY_REMAINING_JOBS)
          + Cardinality(TerminatedJobs) = Cardinality(jobs)
     /\ CounterSinceReady(CACHE_KEY_FAILED_JOBS) <= Cardinality(TerminatedJobs)

\* C12: failed_jobs and remaining_jobs stay between 0 and the number of jobs
\* of the pipeline.
C12_CountersInRange ==
  /\ CounterSinceReady(CACHE_KEY_FAILED_JOBS) \in 0..Cardinality(jobs)
  /\ CounterSinceReady(CACHE_KEY_REMAINING_JOBS) \in 0..Cardinality(jobs)

\* C13: the enqueued_tasks cache counter and the enqueued_workers_count
\* column of every job are never below 0, duplicate and late callbacks
\* included.
C13_CountersNonNegative ==
  \A j \in JobIds :
    /\ CacheGet(cache, EnqueuedKey(j), 0) >= 0
    /\ enqueued_workers_count[j] >= 0

\* the one callback of a job's run came twice: the second delivery found
\* the counter at 0 and left it there
C13_Witness ==
  /\ twin # <<>>
  /\ cache[EnqueuedKey(marked[1][1])] = <<0>>
  /\ twin[1].cache[EnqueuedKey(marked[1][1])] = <<0>>
  /\ enqueued_workers_count[marked[1][1]] = 1

\* C14: a Pipeline.stop handled with the pipeline 'running' moves every job
\* whose effective status is 'waiting' to 'failed' and every job whose
\* effective status is 'running' to 'stopping', and while the pipeline is
\* 'stopping' no job moves from 'waiting' to 'running'.
C14_StopMovesJobs ==
  [][/\ (DoPipelineStop /\ pipeline_status = "running")
        => \A j \in jobs :
             /\ EffectiveStatus(j) = "waiting" => EffectiveStatus(j)' = "failed"
             /\ EffectiveStatus(j) = "running"
                => EffectiveStatus(j)' = "stopping"
     /\ (pipeline_status = "stopping" /\ pipeline_status' = "stopping")
        => \A j \in jobs :
             ~ (EffectiveStatus(j) = "waiting"
                /\ EffectiveStatus(j)' = "running")]_vars

\* the precondition of Pipeline.start
StartAllowed ==
  /\ pipeline_status \in {"idle", "finished", "failed", "succeeded"}
  /\ jobs # {}
  /\ \A j \in jobs : EffectiveStatus(j) \in {"idle", "succeeded", "failed"}

\* C15: a Pipeline.start that returns true, changes the pipeline status or
\* changes the effective status of a job was called with the pipeline idle,
\* finished, failed or succeeded, at least one job, and every job idle,
\* succeeded or failed; called otherwise it returns false and leaves the
\* pipeline status as it was.
C15_StartGuard ==
  [][DoPipelineStart
     => /\ (\/ runs' > runs
            \/ pipeline_status' # pipeline_status
            \/ \E j \in jobs : EffectiveStatus(j)' # EffectiveStatus(j))
           => StartAllowed
        /\ ~ StartAllowed
           => /\ runs' = runs
              /\ pipeline_status' = pipeline_status]_vars

\* the pipeline was started again after a run that ended; it is running
\* with one job succeeded and another one running, where a start is refused
C15_Witness ==
  /\ runs = 2
  /\ pipeline_status = "running"
  /\ \E j \in jobs : EffectiveStatus(j) = "succeeded"
  /\ \E j \in jobs : EffectiveStatus(j) = "running"

\* C19: wherever Pipeline.start calls Pipeline.get_ready, right after it the
\* counters and the task list that the jobs of the pipeline write (the
\* entries under the pipeline prefix) read failed_jobs = 0, remaining_jobs =
\* |jobs| and list_of_tasks_enqueued = []; an entry not written yet reads as
\* its reset value.
C19_GetReadyResetsJobKeys ==
  LET c == PipelineGetReady(State).cache
  IN pipeline_status \in {"idle", "finished", "failed", "succeeded"}
     =>
     /\ CacheGet(c, PrefixedKey(CACHE_KEY_FAILED_JOBS), 0) = 0
     /\ CacheGet(c, PrefixedKey(CACHE_KEY_REMAINING_JOBS), Cardinality(jobs))
          = Cardinality(jobs)
     /\ CacheGet(c, PrefixedKey(CACHE_KEY_LIST_OF_TASKS_ENQUEUED), <<>>) = <<>>

\* C16: with a global param x = "2", a pipeline param y = "3" and a job
\* param z of type number with raw value "{% x %} + {% y %} + 5", z.val is 10.
C16_ParamExpansion ==
  \A z \in db.params :
    (/\ z.name = "z" /\ z.type = "number" /\ z.value = Template_x_y_5
     /\ \E x \in db.params : x.name = "x" /\ x.value = <<"2">>
     /\ \E y \in db.params : y.name = "y" /\ y.value = <<"3">>
     /\ val_of # <<>> /\ val_of[1].param = z.id)
    => val_of[1].val = IntVal(10)

\* ---- C17
\* the step is Pipeline.import_data(data) on pipeline pipeline_id
ImportStep(pipeline_id, data) ==
  /\ db'.next.jobs = db.next.jobs + Len(data.jobs)
  /\ DoImportData(pipeline_id, data)

\* the start conditions of a descriptor, as (job, preceding job, condition)
\* over the source ids
SourceEdges(data) ==
  {<<data.jobs[i].id,
     data.jobs[i].hash_start_conditions[k].preceding_job_id,
     data.jobs[i].hash_start_conditions[k].condition>> :
     <<i, k>> \in {ik \in (DOMAIN data.jobs) \X (1..1) :
                     ik[2] \in DOMAIN data.jobs[ik[1]].hash_start_conditions}}

NoDanglingReference(d) ==
  LET job_ids == {j.id : j \in d.jobs}
  IN /\ \A sc \in d.start_conditions :
          sc.job_id \in job_ids /\ sc.preceding_job_id \in job_ids
     /\ \A q \in d.params :
          /\ q.job_id = 0 \/ q.job_id \in job_ids
          /\ q.pipeline_id = 0 \/ q.pipeline_id \in d.pipelines
     /\ \A q \in d.schedules : q.pipeline_id \in d.pipelines
     /\ \A j \in d.jobs : j.pipeline_id \in d.pipelines

\* the rows of d that refer to one of the jobs or to one of the pipelines
RefersTo(d, job_ids, pipeline_ids) ==
  [pipelines |-> d.pipelines \cap pipeline_ids,
   jobs |-> {j \in d.jobs : j.id \in job_ids \/ j.pipeline_id \in pipeline_ids},
   params |-> {q \in d.params :
                 q.job_id \in job_ids \/ q.pipeline_id \in pipeline_ids},
   start_conditions |->
     {sc \in d.start_conditions :
        sc.job_id \in job_ids \/ sc.preceding_job_id \in job_ids},
   schedules |-> {q \in d.schedules : q.pipeline_id \in pipeline_ids}]

\* the tables after the step are the tables before it less the rows that
\* refer to the destroyed jobs and pipelines
OnlyReferrersGone(job_ids, pipeline_ids) ==
  \A table \in {"pipelines", "jobs", "params", "start_conditions",
                "schedules"} :
    db'[table] = db[table] \ RefersTo(db, job_ids, pipeline_ids)[table]

\* C18: Job.destroy removes the job, its params and every start condition
\* that has it at either end; Pipeline.destroy removes the pipeline, its
\* schedules and params and does the same for each of its jobs.  After the
\* call no row refers to a destroyed job or pipeline, and every row that
\* referred to none of them is still there.
C18_DestroyLeavesNoReference ==
  [][/\ \A j \in db.jobs :
          DoJobDestroy(j.id) =>
            /\ OnlyReferrersGone({j.id}, {})
            /\ NoDanglingReference(db')
     /\ \A pipeline_id \in db.pipelines :
          DoPipelineDestroy(pipeline_id) =>
            /\ OnlyReferrersGone(
                 {j.id : j \in {k \in db.jobs : k.pipeline_id = pipeline_id}},
                 {pipeline_id})
            /\ NoDanglingReference(db')
    ]_vars

\* the first pipeline was destroyed with its job; the second pipeline still
\* has its job, with a param and a start condition
C18_Witness ==
  /\ db.pipelines = {2}
  /\ db.next.jobs = 3
  /\ db.jobs = {[id |-> 2, pipeline_id |-> 2]}
  /\ db.start_conditions # {}
  /\ \E q \in db.params : q.job_id = 2

\* ---- C20
\* the start conditions of a job in the tables d
ConditionsOf(d, job_id) == {sc \in d.start_conditions : sc.job_id = job_id}

\* C20: after Job.assign_start_conditions(L) the preceding jobs of the job's
\* start conditions are the ones named in L, each condition being one L
\* gives for its preceding job; a preceding job in L and in the current set
\* keeps its rows, one only in L gets new rows, one only in the current set
\* loses its rows, and the start conditions of the other jobs are unchanged.
C20_AssignStartConditions ==
  [][\A j \in db.jobs, l \in StartConditionLists :
       DoAssignStartConditions(j.id, l) =>
         LET cur == ConditionsOf(db, j.id)
             now == ConditionsOf(db', j.id)
             arg_sc_ids == {l[i].preceding_job_id : i \in DOMAIN l}
             cur_sc_ids == {sc.preceding_job_id : sc \in cur}
             ids_before == {sc.id : sc \in db.start_conditions}
         IN /\ {sc.preceding_job_id : sc \in now} = arg_sc_ids
            /\ \A sc \in now :
                 \E i \in DOMAIN l :
                   /\ l[i].preceding_job_id = sc.preceding_job_id
                   /\ l[i].condition = sc.condition
            /\ \A sc \in cur :
                 IF sc.preceding_job_id \in arg_sc_ids
                 THEN \E kept \in now :
                        /\ kept.id = sc.id
                        /\ kept.preceding_job_id = sc.preceding_job_id
                 ELSE sc.id \notin {kept.id : kept \in now}
            /\ \A sc \in now :
                 sc.preceding_job_id \notin cur_sc_ids
                   => sc.id \notin ids_before
            /\ db'.start_conditions \ now = db.start_conditions \ cur
    ]_vars

\* ---- C21
\* C21: in every state, Job.enqueue on a job whose effective status is not
\* 'running' returns false and leaves the queue, list_of_tasks_enqueued,
\* the job's enqueued_tasks counter, enqueued_workers_count and everything
\* else as they are.
C21_EnqueueRefused ==
  \A j \in jobs :
    EffectiveStatus(j) # "running"
    => /\ ~ enqueue(State, j).ret
       /\ enqueue(State, j).queue = queue
       /\ enqueue(State, j).cache = cache
       /\ enqueue(State, j).enqueued_workers_count = enqueued_workers_count
       /\ enqueue(State, j) = Return(State, FALSE)

\* a job has failed with a task still outstanding, whose worker may ask for
\* one more task; another job is waiting
C21_Witness ==
  /\ \E j \in jobs :
       /\ EffectiveStatus(j) = "failed"
       /\ \E t \in queue : t[1] = j
  /\ \E j \in jobs : EffectiveStatus(j) = "waiting"

\* ---- C22
\* C22: a Pipeline.start that returns false leaves every job's effective
\* status as it was.
C22_RejectedStartChangesNoJob ==
  [][(DoPipelineStart /\ ~ PipelineStart(State).ret)
     => \A j \in jobs : EffectiveStatus(j)' = EffectiveStatus(j)]_vars

\* ---- C23
\* the enqueued_tasks counter of job j, 0 when it was never written
EnqueuedTasks(j) == CacheGet(cache, EnqueuedKey(j), 0)

\* C23: a handler that ran Pipeline._finish (it sent a notification) and
\* left the pipeline 'succeeded' or 'failed' leaves no task outstanding:
\* the queue and list_of_tasks_enqueued are empty and every job's
\* enqueued_tasks counter is 0.
C23_FinishedWithNoTaskOutstanding ==
  [][(mails' > mails /\ pipeline_status' \in Terminal)
     => /\ queue' = {}
        /\ ListOfTasksEnqueued' = <<>>
        /\ \A j \in jobs : EnqueuedTasks(j)' = 0]_vars

\* ---- C26
\* Job.run was called for job j in this step: its tally of the run goes up,
\* or a run begins with it
RanJob(j) ==
  \/ n_run'[j] > n_run[j]
  \/ DoPipelineStart /\ PipelineStart(State).ret /\ n_run'[j] >= 1

\* C26: the handler that called Job.run for job j leaves the job's
\* enqueued_tasks counter at 1 and its enqueued_workers_count at 1.
C26_RunLeavesOneTask ==
  [][\A j \in jobs :
       RanJob(j) => /\ EnqueuedTasks(j)' = 1
                    /\ enqueued_workers_count'[j] = 1]_vars

\* ---- C27
\* C27: when the callback of the task that Pipeline.start_single_job(J)
\* enqueued is the first thing handled after the call, every job other than
\* J has afterwards the effective status it had before the call.
C27_SingleJobRunLeavesOthers ==
  [][\A t \in queue \ queue' :
       (/\ single # <<>>
        /\ State = single[1].after
        /\ t[1] = single[1].job
        /\ t \notin single[1].before.queue
        /\ DoWorkerSucceeded(t) \/ DoWorkerFailed(t))
       => \A k \in jobs \ {t[1]} :
            EffectiveStatus(k)' = get_status(single[1].before, k)]_vars

\* ---- C24
\* C24: in one pipeline run whose handlers interleave operation by operation
\* and whose workers ask for no further task, a job with two distinct
\* predecessors has Job.run executed at most once.
C24_DependentRunsOnce ==
  enqueues = 0 =>
    \A d \in jobs : Cardinality(Predecessors(d)) = 2 => n_run[d] <= 1

\* ---- C25
\* the tasks of job j submitted to the queue whose callback is not yet handled
OutstandingTasks(j) == {t \in queue : t[1] = j}

\* C25: whenever no handler is in progress, every job's enqueued_tasks
\* counter equals the number of its outstanding tasks.
C25_CounterCountsOutstandingTasks ==
  handlers = NoHandlers =>
    \A j \in jobs : EnqueuedTasks(j) = Cardinality(OutstandingTasks(j))

====
